---- MODULE Spec2Model ----
(***************************************************************************)
(* The scikit-learn quickstart notebook: cell2 loads the VEHICLE table     *)
(* into X, cell3 builds the ColumnTransformer `preprocessor` (imputer +    *)
(* scaler on numerical_cols, one-hot on onehot_col) and calls              *)
(* fit_transform(X), cell4 splits preprocessed_X into train and test and   *)
(* trains, cell5 predicts.  The fitted preprocessor's transform is the     *)
(* operation inference tables go through.                                  *)
(*                                                                         *)
(* Numbers are exact: a float is modelled as a reduced fraction, and a     *)
(* standardised value z as its sign together with z^2 (the scaler divides  *)
(* by a square root), so rounding is not modelled.                         *)
(*                                                                         *)
(* Around it: the load notebook, which creates CR_QUICKSTART.PUBLIC.VEHICLE*)
(* and copies the CSV file into it (SpecLoad, with the training notebooks' *)
(* read of that table); the XGBoost notebook with its pandas and Snowpark  *)
(* train/test splits (SpecXGB); and train_func of the PyTorch notebook on  *)
(* one worker (SpecTrain).  Each specification moves its own notebook and  *)
(* leaves the others' state as Init set it.                                *)
(***************************************************************************)
EXTENDS Integers, Sequences, FiniteSets, TLC

\* ---------------------------------------------------------------- bounds
\* Most rows of the table cell2 loads.
MaxRows == 2
\* Most rows of an inference table passed to transform.
MaxInfRows == 1

\* ------------------------------------------------------- program constants
\* SimpleImputer's missing_values marker (np.nan); observed values are >= 0.
NaN == -1
\* Mutant: C9 is left out of the numerical group.
numerical_cols_WithoutC9 == <<"C1", "C4", "C5", "C7", "C8">>
numerical_cols == <<"C1", "C4", "C5", "C7", "C8", "C9">>
onehot_col == <<"C3">>
\* Mutant: the encoder's default, which raises on an unknown category.
handle_unknown_error == "error"
\* OneHotEncoder(handle_unknown='ignore')
handle_unknown == "ignore"
\* The columns of the VEHICLE table, the timestamp column cell2 drops and the
\* target column it separates from the features.
VehicleCols == <<"C1", "C2", "C3", "C4", "C5", "C6", "C7", "C8", "C9">>
dropped_col == "C2"
label_col == "C6"
\* Columns of X: VEHICLE's C1..C9 without the dropped C2 and the target C6.
XCols == <<"C1", "C3", "C4", "C5", "C7", "C8", "C9">>

\* ------------------------------------------------------------------ state
VARIABLES pc, X, preprocessor, preprocessed_X, fit_X, test_idx, err, call
\* The Snowflake account, the load notebook's run, a training notebook's read
\* of the table, the XGBoost notebook's run, and one worker's train_func.
VARIABLES account, load, trainer, xgb, worker
\* The state outside the scikit-learn notebook's kernel.
outside == <<account, load, trainer, xgb, worker>>
\* The scikit-learn notebook's kernel.
kernel == <<pc, X, preprocessor, preprocessed_X, fit_X, test_idx, err, call>>
vars == <<pc, X, preprocessor, preprocessed_X, fit_X, test_idx, err, call,
          account, load, trainer, xgb, worker>>

\* pc: the next notebook step.  X, preprocessor, preprocessed_X: the kernel's
\* variables.  test_idx: the rows train_test_split put in the test split.
\* err: the exception that ended the run.  fit_X: the table preprocessed_X
\* was computed from.  call: the latest preprocessor.transform call.

\* ------------------------------------------------------------- arithmetic
Abs(n) == IF n < 0 THEN 0 - n ELSE n
Sign(n) == IF n < 0 THEN 0 - 1 ELSE IF n > 0 THEN 1 ELSE 0

RECURSIVE GCD(_, _)
GCD(a, b) == IF b = 0 THEN a ELSE GCD(b, a % b)

\* The fraction n/d (d > 0) in lowest terms.
Frac(n, d) == LET g == GCD(Abs(n), d) IN [n |-> n \div g, d |-> d \div g]
Zero == Frac(0, 1)
FAdd(a, b) == Frac(a.n * b.d + b.n * a.d, a.d * b.d)
FSub(a, b) == Frac(a.n * b.d - b.n * a.d, a.d * b.d)
FMul(a, b) == Frac(a.n * b.n, a.d * b.d)
\* a / b for b > 0
FDiv(a, b) == Frac(a.n * b.d, a.d * b.n)

RECURSIVE FSum(_)
FSum(s) == IF s = <<>> THEN Zero ELSE FAdd(Head(s), FSum(Tail(s)))

\* The real number with the given sign whose square is sq.
Real(sgn, sq) == [sgn |-> sgn, sq |-> sq]
R0 == Real(0, Zero)
R1 == Real(1, Frac(1, 1))

SeqToSet(s) == {s[i] : i \in DOMAIN s}
Min(S) == CHOOSE m \in S : \A x \in S : m <= x

\* np.unique: the distinct values in ascending order.
RECURSIVE SortedSeq(_)
SortedSeq(S) == IF S = {} THEN <<>> ELSE <<Min(S)>> \o SortedSeq(S \ {Min(S)})

\* ----------------------------------------------------------------- tables
\* A table: its column names in order and one value sequence per column.
NRows(T) == IF T.names = <<>> THEN 0 ELSE Len(T.col[T.names[1]])
HasColumns(T, names) == SeqToSet(names) \subseteq SeqToSet(T.names)

\* ColumnTransformer's column selection: the named columns, in the order
\* of the name list.
Route(T, names) == [i \in 1..Len(names) |-> T.col[names[i]]]

\* --------------------------------------------- numerical_transformer
\* SimpleImputer(strategy='mean').fit on one column: the mean of the
\* observed values; a column with none has statistic nan.
Observed(xs) == SelectSeq(xs, LAMBDA x : x # NaN)
ImputerFit(xs) ==
  LET obs == Observed(xs) IN
  IF obs = <<>> THEN [ok |-> FALSE, mean |-> Zero]
  ELSE [ok |-> TRUE,
        mean |-> FDiv(FSum([i \in 1..Len(obs) |-> Frac(obs[i], 1)]), Frac(Len(obs), 1))]

\* SimpleImputer.transform: columns whose statistic is nan are left out,
\* missing values of the others become the stored mean.
KeptIdx(stats) == SelectSeq([i \in 1..Len(stats) |-> i], LAMBDA i : stats[i].ok)
\* Mutant: a missing value is filled with the constant 0 (strategy='constant').
ImputeValue_Zero(x, mean) == IF x = NaN THEN Zero ELSE Frac(x, 1)
ImputeValue(x, mean) == IF x = NaN THEN mean ELSE Frac(x, 1)
\* Mutant: rows with a missing value are dropped instead of imputed.
ImputerTransform_DropMissing(stats, block) ==
  LET k == KeptIdx(stats) IN
  [j \in 1..Len(k) |->
     [i \in 1..Len(Observed(block[k[j]])) |-> Frac(Observed(block[k[j]])[i], 1)]]
ImputerTransform(stats, block) ==
  LET k == KeptIdx(stats) IN
  [j \in 1..Len(k) |->
     [i \in 1..Len(block[k[j]]) |-> ImputeValue(block[k[j]][i], stats[k[j]].mean)]]

\* Mutant: the sample variance (ddof = 1) in place of the population variance.
ScalerFit_SampleVar(col) ==
  LET n == Frac(Len(col), 1)
      m == FDiv(FSum(col), n)
      d == [i \in 1..Len(col) |-> FMul(FSub(col[i], m), FSub(col[i], m))]
  IN [mean |-> m,
      var |-> IF Len(col) = 1 THEN Zero ELSE FDiv(FSum(d), Frac(Len(col) - 1, 1))]
\* StandardScaler().fit on one imputed column: mean_ and var_ (ddof = 0).
ScalerFit(col) ==
  LET n == Frac(Len(col), 1)
      m == FDiv(FSum(col), n)
      d == [i \in 1..Len(col) |-> FMul(FSub(col[i], m), FSub(col[i], m))]
  IN [mean |-> m, var |-> FDiv(FSum(d), n)]

\* StandardScaler.transform of one value: (x - mean_) / scale_, where
\* scale_ = sqrt(var_), and 1 when var_ is zero.
ScaleValue(x, p) ==
  LET c == FSub(x, p.mean)
      sq == FMul(c, c)
  IN Real(Sign(c.n), IF p.var.n = 0 THEN sq ELSE FDiv(sq, p.var))
ScalerTransform(scaler, block) ==
  [j \in 1..Len(block) |->
     [i \in 1..Len(block[j]) |-> ScaleValue(block[j][i], scaler[j])]]

\* ------------------------------------------------- onehot_transformer
\* Mutant: the order of the categories depends on what the kernel already
\* holds, not on the column alone.
Categories_Unstable(xs) ==
  LET c == SortedSeq(SeqToSet(xs)) IN
  IF preprocessed_X = <<>> THEN c ELSE [i \in 1..Len(c) |-> c[Len(c) + 1 - i]]
\* OneHotEncoder.fit: categories_ of one column.
Categories(xs) == SortedSeq(SeqToSet(xs))

\* Mutant: an unknown value is encoded as the first category.
OneHotRow_UnknownAsFirst(cats, v) ==
  [k \in 1..Len(cats) |->
     IF v = cats[k] \/ (k = 1 /\ v \notin SeqToSet(cats)) THEN R1 ELSE R0]
\* One row's indicators for one source column.
OneHotRow(cats, v) == [k \in 1..Len(cats) |-> IF v = cats[k] THEN R1 ELSE R0]

\* Whether OneHotEncoder.transform raises on the block.
UnknownFound(cats, block) ==
  \E j \in 1..Len(block) : \E i \in 1..Len(block[j]) :
     block[j][i] \notin SeqToSet(cats[j])
OneHotRaises(cats, block) == handle_unknown = "error" /\ UnknownFound(cats, block)

\* ------------------------------------------------------- feature matrix
\* A feature matrix is a sequence of columns, each with its feature name
\* (transformer, source column, category; NaN where there is none).
NumFeature(name, vals) == [tr |-> "num", src |-> name, cat |-> NaN, vals |-> vals]
OneHotFeature(name, c, vals) == [tr |-> "onehot", src |-> name, cat |-> c, vals |-> vals]

RECURSIVE Flatten(_)
Flatten(ss) == IF ss = <<>> THEN <<>> ELSE Head(ss) \o Flatten(Tail(ss))

NumBlock(p, T) ==
  LET k == KeptIdx(p.statistics)
      z == ScalerTransform(p.scaler, ImputerTransform(p.statistics, Route(T, numerical_cols)))
  IN [j \in 1..Len(k) |-> NumFeature(numerical_cols[k[j]], z[j])]

\* Mutant: the indicator columns follow the categories of the table being
\* transformed, not those recorded at fit time.
OneHotBlock_FromInput(p, T) ==
  LET b == Route(T, onehot_col) IN
  Flatten([j \in 1..Len(onehot_col) |->
     [k \in 1..Len(Categories(b[j])) |->
        OneHotFeature(onehot_col[j], Categories(b[j])[k],
           [i \in 1..Len(b[j]) |-> OneHotRow(Categories(b[j]), b[j][i])[k]])]])
\* Mutant: rows holding a category unseen at fit time are left out of the
\* indicator columns.
OneHotBlock_DropUnknown(p, T) ==
  LET b == Route(T, onehot_col) IN
  Flatten([j \in 1..Len(onehot_col) |->
     [k \in 1..Len(p.categories[j]) |->
        OneHotFeature(onehot_col[j], p.categories[j][k],
           LET known == SelectSeq(b[j], LAMBDA v : v \in SeqToSet(p.categories[j]))
           IN [i \in 1..Len(known) |-> OneHotRow(p.categories[j], known[i])[k]])]])
OneHotBlock(p, T) ==
  LET b == Route(T, onehot_col) IN
  Flatten([j \in 1..Len(onehot_col) |->
     [k \in 1..Len(p.categories[j]) |->
        OneHotFeature(onehot_col[j], p.categories[j][k],
           [i \in 1..Len(b[j]) |-> OneHotRow(p.categories[j], b[j][i])[k]])]])

\* Mutant: the blocks are stacked in the other order.
Combine_OneHotFirst(num, onehot) == onehot \o num
\* ColumnTransformer's hstack: the 'num' block, then the 'onehot' block.
Combine(num, onehot) == num \o onehot

\* ----------------------------------------------------------- preprocessor
\* A ColumnTransformer before fit.
Unfitted == [fitted |-> FALSE, statistics |-> <<>>, scaler |-> <<>>, categories |-> <<>>]

\* What fit learns from table T: imputer statistics_ per numerical column,
\* scaler mean_/var_ per column the imputer keeps, categories_ per one-hot
\* column.
FitParams(T) ==
  LET nb == Route(T, numerical_cols)
      stats == [j \in 1..Len(nb) |-> ImputerFit(nb[j])]
      imp == ImputerTransform(stats, nb)
      ob == Route(T, onehot_col)
  IN [fitted |-> TRUE,
      statistics |-> stats,
      scaler |-> [j \in 1..Len(imp) |-> ScalerFit(imp[j])],
      categories |-> [j \in 1..Len(ob) |-> Categories(ob[j])]]

TransformOut(p, T) == Combine(NumBlock(p, T), OneHotBlock(p, T))

\* The error a call on table T ends in, "none" when it returns.  scikit-learn
\* raises ValueError in each case; a missing column is named as the
\* specification names it.
InputError(T) ==
  IF ~HasColumns(T, numerical_cols \o onehot_col) THEN "ColumnNotFoundError"
  ELSE IF NRows(T) = 0 THEN "ValueError"
  ELSE "none"

\* Mutant: a numerical column without an observed value makes fit fail.
FitTransformWith_Strict(p, T) ==
  IF \E j \in 1..Len(p.statistics) : ~p.statistics[j].ok
  THEN [err |-> "EmptyColumnError", params |-> Unfitted, out |-> <<>>]
  ELSE [err |-> "none", params |-> p, out |-> TransformOut(p, T)]

\* Mutant: fit_transform fits the scaler but returns the numerical columns
\* as the imputer left them.
FitTransformWith_Unscaled(p, T) ==
  IF KeptIdx(p.statistics) = <<>>
  THEN [err |-> "ValueError", params |-> Unfitted, out |-> <<>>]
  ELSE [err |-> "none", params |-> p,
        out |-> TransformOut([p EXCEPT !.scaler =
                   [j \in 1..Len(p.scaler) |-> [mean |-> Zero, var |-> Zero]]], T)]

\* fit_transform with the parameters p that fit learns from T.
FitTransformWith(p, T) ==
  IF KeptIdx(p.statistics) = <<>>
  THEN [err |-> "ValueError", params |-> Unfitted, out |-> <<>>]
  ELSE IF OneHotRaises(p.categories, Route(T, onehot_col))
  THEN [err |-> "ValueError", params |-> Unfitted, out |-> <<>>]
  ELSE [err |-> "none", params |-> p, out |-> TransformOut(p, T)]

\* preprocessor.fit_transform(T) on a new ColumnTransformer.
FitTransform(T) ==
  IF InputError(T) # "none"
  THEN [err |-> InputError(T), params |-> Unfitted, out |-> <<>>]
  ELSE FitTransformWith(FitParams(T), T)

\* preprocessor.fit(T) on a new ColumnTransformer: scikit-learn's
\* ColumnTransformer.fit runs fit_transform and keeps only the fitted state.
Fit(T) == LET r == FitTransform(T) IN [err |-> r.err, params |-> r.params]

\* Mutant: a transform that fails on its input discards the fitted state.
Transform_ResetOnError(p, T) ==
  IF InputError(T) # "none"
  THEN [err |-> InputError(T), params |-> Unfitted, out |-> <<>>]
  ELSE [err |-> "none", params |-> p, out |-> TransformOut(p, T)]

\* Mutant: transform fits the parameters again, on the table it is given.
Transform_Refit(p, T) ==
  IF InputError(T) # "none"
  THEN [err |-> InputError(T), params |-> p, out |-> <<>>]
  ELSE [err |-> "none", params |-> FitParams(T), out |-> TransformOut(FitParams(T), T)]

\* preprocessor.transform(T) on a fitted ColumnTransformer with parameters p:
\* the parameters are read, never written.
Transform(p, T) ==
  IF InputError(T) # "none"
  THEN [err |-> InputError(T), params |-> p, out |-> <<>>]
  ELSE IF OneHotRaises(p.categories, Route(T, onehot_col))
  THEN [err |-> "ValueError", params |-> p, out |-> <<>>]
  ELSE [err |-> "none", params |-> p, out |-> TransformOut(p, T)]

\* The rows of T that train_test_split leaves in the training split when the
\* rows in test are the test split, in their order.
TrainRows(T, test) ==
  LET idx == SelectSeq([i \in 1..NRows(T) |-> i], LAMBDA i : i \notin test) IN
  [names |-> T.names,
   col |-> [c \in DOMAIN T.col |-> [k \in 1..Len(idx) |-> T.col[c][idx[k]]]]]

\* train_test_split(..., test_size=0.1): the number of test rows among n.
NTest(n) == (n + 9) \div 10

\* ------------------------------------------------------------ input tables
\* Values of the numerical column C1, categories of C3 in the loaded table,
\* and categories of C3 in an inference table (9 is never seen at fit time).
NumVals == {NaN, 1, 3}
FitCatVals == {5, 7}
CatVals == {5, 7, 9}
AbsentChoices == {{}, {"C1"}, {"C3"}}

\* Columns C1 and C3 carry the chosen values; the other columns hold the
\* row number.
Table(n, c1, c3, absent) ==
  LET names == SelectSeq(XCols, LAMBDA c : c \notin absent) IN
  [names |-> names,
   col |-> [c \in SeqToSet(names) |->
              IF c = "C1" THEN c1 ELSE IF c = "C3" THEN c3 ELSE [i \in 1..n |-> i]]]

Tables(maxRows, cats) ==
  UNION {{Table(n, c1, c3, a) : c1 \in [1..n -> NumVals], c3 \in [1..n -> cats],
                                a \in AbsentChoices} : n \in 0..maxRows}

\* The tables cell2 may load, and the inference tables.
LoadTables == Tables(MaxRows, FitCatVals)
InferenceTables == Tables(MaxInfRows, CatVals)

NoTable == [names |-> <<>>, col |-> [c \in {} |-> <<>>]]
NoCall == [made |-> FALSE, in |-> NoTable, err |-> "none", out |-> <<>>]

\* ------------------------------------------------ the Snowflake account
\* The load notebook's names.
database_name == "CR_QUICKSTART"
schema_name == "PUBLIC"
\* Mutant: the load notebook creates the table under another name.
table_name_Plural == "VEHICLES"
table_name == "VEHICLE"
file_format_name == "CSV_FORMAT"
stage_name == "VEHICLE_STAGE"
s3_bucket_url == "s3://sfquickstarts/misc/demos/fraud_transactions.csv"

\* table_name of the three training notebooks, 'CR_QUICKSTART.PUBLIC.VEHICLE',
\* split at the dots.
sklearn_table_name == <<"CR_QUICKSTART", "PUBLIC", "VEHICLE">>
xgboost_table_name == <<"CR_QUICKSTART", "PUBLIC", "VEHICLE">>
pytorch_table_name == <<"CR_QUICKSTART", "PUBLIC", "VEHICLE">>
TrainingNotebooks == {"sklearn", "xgboost", "pytorch"}
TrainingTable(nb) ==
  IF nb = "sklearn" THEN sklearn_table_name
  ELSE IF nb = "xgboost" THEN xgboost_table_name
  ELSE pytorch_table_name

\* Most data lines of the CSV file, and most times the load notebook is run
\* again after its first run.
MaxFileRows == 2
MaxReruns == 1

\* A CSV file is its lines: the header, then the data lines (each stands for
\* one row's fields).  No file at the URL is the empty sequence.
HeaderLine == 0
RowVals == {1, 2}
NoFile == <<>>
Files == UNION {{<<HeaderLine>> \o d : d \in [1..n -> RowVals]} : n \in 0..MaxFileRows}

\* The account before the load notebook has run: no database, nothing staged.
\* tables maps each existing table's qualified name to its columns, rows and
\* load metadata (the files COPY INTO has loaded into it).
NoAccount ==
  [databases |-> {}, schemas |-> {}, tables |-> [n \in {} |-> 0],
   file_formats |-> {}, stages |-> {}, file |-> NoFile]

\* The load notebook's kernel: pc is the next statement of LoadProgram,
\* session the Snowpark session, database/schema its current namespace,
\* issued the SQL statements sent on it, counts the row counts printed so
\* far, runs the number of finished runs before this one.
NotStarted ==
  [pc |-> 1, session |-> "none", database |-> "", schema |-> "", issued |-> <<>>,
   err |-> "none", counts |-> <<>>, runs |-> 0]

\* A training notebook's read of the table: which notebook, how it ended,
\* the columns of X and the number of rows it got, and how far the load
\* notebook had come when it read.
NoRead ==
  [made |-> FALSE, nb |-> "", err |-> "none", names |-> <<>>, nrows |-> 0,
   created |-> FALSE, copied |-> FALSE]

\* --------------------------------------------------- the XGBoost notebook
\* Most rows of the table the XGBoost notebook reads.
MaxTableRows == 3
XGBNotStarted ==
  [pc |-> "cell2", table |-> <<>>, x_test |-> {}, trained_on |-> <<>>,
   predicted_on |-> {}, err |-> "none"]

\* --------------------------------------------------------- train_func
\* Most batches in a worker's shard.
MaxBatches == 2
\* for epoch in range(10)
NumEpochs == 10
\* No loss has been assigned yet in this call of train_func.
Unbound == <<>>
\* Schemas the table named by table_name may have when the PyTorch notebook
\* reads it: the load notebook's C1..C9, or an older table that CREATE TABLE
\* IF NOT EXISTS left in place and that lacks C2, C6 or both.
TableSchemas ==
  {SelectSeq(VehicleCols, LAMBDA c : c \notin S) : S \in SUBSET {dropped_col, label_col}}
\* No column list has been derived yet.
NoCols == <<>>
WorkerIdle ==
  [pc |-> "idle", batches |-> 0, epoch |-> 0, batch |-> 0, loss |-> Unbound,
   steps |-> <<>>, reports |-> <<>>, finished |-> FALSE, err |-> "none",
   table_cols |-> NoCols, input_cols |-> NoCols, shard_cols |-> NoCols,
   input_size |-> 0, stacked |-> NoCols]

\* ------------------------------------------------------------ notebook
Init ==
  /\ pc = "cell2"
  /\ X = NoTable
  /\ preprocessor = Unfitted
  /\ preprocessed_X = <<>>
  /\ fit_X = NoTable
  /\ test_idx = {}
  /\ err = "none"
  /\ call = NoCall
  /\ account = NoAccount
  /\ load = NotStarted
  /\ trainer = NoRead
  /\ xgb = XGBNotStarted
  /\ worker = WorkerIdle

\* cell2: X = the loaded table without C2 and C6.
Cell2 ==
  /\ pc = "cell2"
  /\ \E T \in LoadTables : X' = T
  /\ pc' = "cell3"
  /\ UNCHANGED <<preprocessor, preprocessed_X, fit_X, test_idx, err, call>>
  /\ UNCHANGED outside

\* cell3, first statement: preprocessor = ColumnTransformer(...).
Cell3Construct ==
  /\ pc = "cell3"
  /\ preprocessor' = Unfitted
  /\ pc' = "fit"
  /\ UNCHANGED <<X, preprocessed_X, fit_X, test_idx, err, call>>
  /\ UNCHANGED outside

\* cell3, second statement: preprocessed_X = preprocessor.fit_transform(X).
Cell3FitTransform ==
  /\ pc = "fit"
  /\ LET r == FitTransform(X) IN
     IF r.err = "none"
     THEN /\ preprocessor' = r.params
          /\ preprocessed_X' = r.out
          /\ fit_X' = X
          /\ pc' = "cell4"
          /\ UNCHANGED err
     ELSE /\ err' = r.err
          /\ pc' = "failed"
          /\ UNCHANGED <<preprocessor, preprocessed_X, fit_X>>
  /\ UNCHANGED <<X, test_idx, call>>
  /\ UNCHANGED outside

\* cell4: train_test_split(preprocessed_X, y, test_size=0.1, random_state=42)
\* and model.fit.  The shuffle is a fixed permutation the model does not
\* compute: any set of NTest(n) rows may be the test split.
Cell4 ==
  /\ pc = "cell4"
  /\ ~call.made
  /\ LET n == Len(preprocessed_X[1].vals) IN
     IF n - NTest(n) = 0
     THEN /\ err' = "ValueError"
          /\ pc' = "failed"
          /\ UNCHANGED test_idx
     ELSE /\ \E S \in SUBSET (1..n) : Cardinality(S) = NTest(n) /\ test_idx' = S
          /\ pc' = "cell5"
          /\ UNCHANGED err
  /\ UNCHANGED <<X, preprocessor, preprocessed_X, fit_X, call>>
  /\ UNCHANGED outside

\* cell5: model.predict(X_test).
Cell5 ==
  /\ pc = "cell5"
  /\ ~call.made
  /\ pc' = "done"
  /\ UNCHANGED <<X, preprocessor, preprocessed_X, fit_X, test_idx, err, call>>
  /\ UNCHANGED outside

\* preprocessor.transform(T) on an inference table.  The fitted preprocessor
\* can be called at any time after cell3; cell4 and cell5 neither read nor
\* write it, so the calls are placed before cell4.  call records the table
\* and the result.
TransformCall ==
  /\ pc = "cell4"
  /\ ~call.made
  /\ \E T \in InferenceTables :
       LET r == Transform(preprocessor, T) IN
       /\ preprocessor' = r.params
       /\ call' = [made |-> TRUE, in |-> T, err |-> r.err, out |-> r.out]
  /\ UNCHANGED <<pc, X, preprocessed_X, fit_X, test_idx, err>>
  /\ UNCHANGED outside

\* The caller is done with the result of the transform call.
TransformReturn ==
  /\ call.made
  /\ call' = NoCall
  /\ UNCHANGED <<pc, X, preprocessor, preprocessed_X, fit_X, test_idx, err>>
  /\ UNCHANGED outside

\* Running cell3 again in the same kernel, on the same X.
Rerun ==
  /\ pc = "cell4"
  /\ ~call.made
  /\ pc' = "cell3"
  /\ UNCHANGED <<X, preprocessor, preprocessed_X, fit_X, test_idx, err, call>>
  /\ UNCHANGED outside

Next ==
  \/ Cell2
  \/ Cell3Construct
  \/ Cell3FitTransform
  \/ Cell4
  \/ Cell5
  \/ TransformCall
  \/ TransformReturn
  \/ Rerun

Spec == Init /\ [][Next]_vars

\* --------------------------------------------------- the load notebook
\* Mutant: cell-4 runs COPY INTO before it creates the stage.
LoadProgram_CopyBeforeStage ==
  <<"GET_SESSION", "SELECT_USER", "CREATE_DATABASE", "USE_DATABASE", "CREATE_SCHEMA",
    "USE_SCHEMA", "CREATE_TABLE", "CREATE_FILE_FORMAT", "COPY_INTO", "CREATE_STAGE",
    "SELECT_COUNT", "CLOSE">>
\* The notebook's statements in cell order: get_active_session, the
\* session.sql(...).collect() calls, session.close().
LoadProgram ==
  <<"GET_SESSION", "SELECT_USER", "CREATE_DATABASE", "USE_DATABASE", "CREATE_SCHEMA",
    "USE_SCHEMA", "CREATE_TABLE", "CREATE_FILE_FORMAT", "CREATE_STAGE", "COPY_INTO",
    "SELECT_COUNT", "CLOSE">>
Finished == Len(LoadProgram) + 1

\* The result of a statement: it succeeded with a new account and session
\* state, or it failed and changed nothing.
Ok(a, l) == [err |-> "none", account |-> a, load |-> l]
Fail(e) == [err |-> e, account |-> account, load |-> load]
Put(f, k, v) == [n \in DOMAIN f \cup {k} |-> IF n = k THEN v ELSE f[n]]

\* {database_name}.{schema_name}.{table_name}
QualifiedTable == <<database_name, schema_name, table_name>>
\* An unqualified name resolves in the session's current schema.
InCurrentSchema(l, name) == <<l.database, l.schema, name>>

\* CREATE DATABASE IF NOT EXISTS: a new database comes with its PUBLIC schema.
CreateDatabase(a, l) ==
  Ok([a EXCEPT !.databases = @ \cup {database_name},
               !.schemas = IF database_name \in a.databases THEN @
                           ELSE @ \cup {<<database_name, "PUBLIC">>}], l)
\* USE DATABASE
UseDatabase(a, l) ==
  IF database_name \notin a.databases THEN Fail("ObjectNotFound")
  ELSE Ok(a, [l EXCEPT !.database = database_name,
                       !.schema = IF <<database_name, "PUBLIC">> \in a.schemas
                                  THEN "PUBLIC" ELSE ""])
\* CREATE SCHEMA IF NOT EXISTS, in the current database
CreateSchema(a, l) ==
  IF l.database = "" THEN Fail("NoCurrentDatabase")
  ELSE Ok([a EXCEPT !.schemas = @ \cup {<<l.database, schema_name>>}], l)
\* USE SCHEMA
UseSchema(a, l) ==
  IF l.database = "" THEN Fail("NoCurrentDatabase")
  ELSE IF <<l.database, schema_name>> \notin a.schemas THEN Fail("ObjectNotFound")
  ELSE Ok(a, [l EXCEPT !.schema = schema_name])

\* Mutant: CREATE TABLE IF NOT EXISTS whose load metadata is lost: an
\* existing table keeps its rows and forgets which files it has loaded.
NewTable_KeepRows(a) ==
  IF QualifiedTable \in DOMAIN a.tables
  THEN [a.tables[QualifiedTable] EXCEPT !.loaded = {}]
  ELSE [cols |-> VehicleCols, rows |-> <<>>, loaded |-> {}]
\* CREATE OR REPLACE TABLE: the table is new, without rows or load metadata,
\* whether or not one of that name existed.
NewTable(a) == [cols |-> VehicleCols, rows |-> <<>>, loaded |-> {}]
CreateTable(a, l) ==
  IF <<database_name, schema_name>> \notin a.schemas THEN Fail("ObjectNotFound")
  ELSE Ok([a EXCEPT !.tables = Put(@, QualifiedTable, NewTable(a))], l)

\* CREATE OR REPLACE FILE FORMAT, in the current schema
CreateFileFormat(a, l) ==
  IF l.schema = "" THEN Fail("NoCurrentSchema")
  ELSE Ok([a EXCEPT !.file_formats = @ \cup {InCurrentSchema(l, file_format_name)}], l)
\* CREATE OR REPLACE STAGE ... FILE_FORMAT = (FORMAT_NAME = CSV_FORMAT)
CreateStage(a, l) ==
  IF l.schema = "" THEN Fail("NoCurrentSchema")
  ELSE IF InCurrentSchema(l, file_format_name) \notin a.file_formats
  THEN Fail("ObjectNotFound")
  ELSE Ok([a EXCEPT !.stages = @ \cup {InCurrentSchema(l, stage_name)}], l)

\* The rows a file holds under SKIP_HEADER = 1.
DataRows(file) == IF file = NoFile THEN <<>> ELSE Tail(file)
\* COPY INTO table FROM @stage: the staged file is loaded unless the table's
\* load metadata says it already was.
CopyInto(a, l) ==
  IF \/ QualifiedTable \notin DOMAIN a.tables
     \/ InCurrentSchema(l, stage_name) \notin a.stages
     \/ InCurrentSchema(l, file_format_name) \notin a.file_formats
  THEN Fail("ObjectNotFound")
  ELSE IF a.file = NoFile \/ s3_bucket_url \in a.tables[QualifiedTable].loaded
  THEN Ok(a, l)
  ELSE Ok([a EXCEPT !.tables[QualifiedTable] =
              [@ EXCEPT !.rows = @ \o DataRows(a.file),
                        !.loaded = @ \cup {s3_bucket_url}]], l)
\* SELECT COUNT(*) and the print of row_count
SelectCount(a, l) ==
  IF QualifiedTable \notin DOMAIN a.tables THEN Fail("ObjectNotFound")
  ELSE Ok(a, [l EXCEPT !.counts = Append(@, Len(a.tables[QualifiedTable].rows))])

\* The notebook is at statement stmt.
At(stmt) ==
  /\ load.err = "none"
  /\ load.pc \in 1..Len(LoadProgram)
  /\ LoadProgram[load.pc] = stmt
\* session.sql(stmt).collect() with result r: the statement is sent and the
\* notebook goes on, or the exception ends the run.
Collect(stmt, r) ==
  /\ IF load.session # "open"
     THEN /\ load' = [load EXCEPT !.err = "SessionNotOpen"]
          /\ UNCHANGED account
     ELSE IF r.err = "none"
     THEN /\ account' = r.account
          /\ load' = [r.load EXCEPT !.pc = @ + 1, !.issued = Append(@, stmt)]
     ELSE /\ load' = [load EXCEPT !.err = r.err, !.issued = Append(@, stmt)]
          /\ UNCHANGED account
  /\ UNCHANGED <<kernel, trainer, xgb, worker>>

\* The CSV file is put at s3_bucket_url, before the notebook is first run,
\* and is not changed afterwards.
SourceFile ==
  /\ account.file = NoFile
  /\ load.pc = 1
  /\ load.runs = 0
  /\ \E f \in Files : account' = [account EXCEPT !.file = f]
  /\ UNCHANGED <<kernel, load, trainer, xgb, worker>>

\* cell-1: session = get_active_session()
LoadGetSession ==
  /\ At("GET_SESSION")
  /\ load' = [load EXCEPT !.session = "open", !.pc = @ + 1]
  /\ UNCHANGED <<kernel, account, trainer, xgb, worker>>
\* cell-1: SELECT current_user(), current_version()
LoadSelectUser == At("SELECT_USER") /\ Collect("SELECT_USER", Ok(account, load))
\* cell-2
LoadCreateDatabase ==
  At("CREATE_DATABASE") /\ Collect("CREATE_DATABASE", CreateDatabase(account, load))
LoadUseDatabase == At("USE_DATABASE") /\ Collect("USE_DATABASE", UseDatabase(account, load))
LoadCreateSchema == At("CREATE_SCHEMA") /\ Collect("CREATE_SCHEMA", CreateSchema(account, load))
LoadUseSchema == At("USE_SCHEMA") /\ Collect("USE_SCHEMA", UseSchema(account, load))
\* cell-3
LoadCreateTable == At("CREATE_TABLE") /\ Collect("CREATE_TABLE", CreateTable(account, load))
\* cell-4
LoadCreateFileFormat ==
  At("CREATE_FILE_FORMAT") /\ Collect("CREATE_FILE_FORMAT", CreateFileFormat(account, load))
LoadCreateStage == At("CREATE_STAGE") /\ Collect("CREATE_STAGE", CreateStage(account, load))
LoadCopyInto == At("COPY_INTO") /\ Collect("COPY_INTO", CopyInto(account, load))
\* cell-5
LoadSelectCount == At("SELECT_COUNT") /\ Collect("SELECT_COUNT", SelectCount(account, load))
\* last cell: session.close()
LoadClose ==
  /\ At("CLOSE")
  /\ load' = [load EXCEPT !.session = "closed", !.pc = @ + 1]
  /\ UNCHANGED <<kernel, account, trainer, xgb, worker>>
\* The whole notebook is run once more, in a new session; the printed
\* output of the earlier runs stays.
LoadRerun ==
  /\ load.pc = Finished
  /\ load.runs < MaxReruns
  /\ load' = [NotStarted EXCEPT !.runs = load.runs + 1, !.counts = load.counts]
  /\ UNCHANGED <<kernel, account, trainer, xgb, worker>>

\* The load notebook has executed statement stmt, in this run or an earlier.
Executed(stmt) ==
  \/ load.runs > 0
  \/ \E i \in 1..(load.pc - 1) : i <= Len(LoadProgram) /\ LoadProgram[i] = stmt

\* A training notebook's cell2: session.table(table_name) to pandas, drop C2,
\* X without C6 and y = C6.
ReadTable(nb) ==
  LET base == [NoRead EXCEPT !.made = TRUE, !.nb = nb,
                             !.created = Executed("CREATE_TABLE"),
                             !.copied = Executed("COPY_INTO")]
  IN IF TrainingTable(nb) \notin DOMAIN account.tables
     THEN [base EXCEPT !.err = "TableNotFound"]
     ELSE LET t == account.tables[TrainingTable(nb)] IN
          IF {dropped_col, label_col} \subseteq SeqToSet(t.cols)
          THEN [base EXCEPT !.names = SelectSeq(t.cols,
                                LAMBDA c : c \notin {dropped_col, label_col}),
                            !.nrows = Len(t.rows)]
          ELSE [base EXCEPT !.err = "KeyError"]
TrainerRead ==
  /\ ~trainer.made
  /\ \E nb \in TrainingNotebooks : trainer' = ReadTable(nb)
  /\ UNCHANGED <<kernel, account, load, xgb, worker>>
\* The notebook goes on with what it read.
TrainerReturn ==
  /\ trainer.made
  /\ trainer' = NoRead
  /\ UNCHANGED <<kernel, account, load, xgb, worker>>

NextLoad ==
  \/ SourceFile
  \/ LoadGetSession
  \/ LoadSelectUser
  \/ LoadCreateDatabase
  \/ LoadUseDatabase
  \/ LoadCreateSchema
  \/ LoadUseSchema
  \/ LoadCreateTable
  \/ LoadCreateFileFormat
  \/ LoadCreateStage
  \/ LoadCopyInto
  \/ LoadSelectCount
  \/ LoadClose
  \/ LoadRerun
  \/ TrainerRead
  \/ TrainerReturn

SpecLoad == Init /\ [][NextLoad]_vars

\* -------------------------------------------------- the XGBoost notebook
\* The tables the notebook may find: rows of VEHICLE without C2, each row
\* standing for its fields; equal rows may occur.
XGBTables == UNION {[1..n -> RowVals] : n \in 0..MaxTableRows}

\* The rows of table t at the positions in S, in table order.
RowsAt(t, S) ==
  LET idx == SelectSeq([i \in 1..Len(t) |-> i], LAMBDA i : i \in S) IN
  [k \in 1..Len(idx) |-> t[idx[k]]]
\* One evaluation of snowpark_df.sample(0.9): row sampling keeps each row
\* with probability 0.9, so any set of positions may be what it returns.
SampleDraws(t) == SUBSET (1..Len(t))
\* a.subtract(b), SQL EXCEPT: the distinct rows of a that do not occur in b.
Subtract(a, b) == SeqToSet(a) \ SeqToSet(b)

\* cell2: the table to pandas, X and y, train_test_split(test_size=0.1).
XGBCell2 ==
  /\ xgb.pc = "cell2"
  /\ \E t \in XGBTables :
       IF Len(t) - NTest(Len(t)) = 0
       THEN xgb' = [xgb EXCEPT !.table = t, !.err = "ValueError", !.pc = "failed"]
       ELSE \E S \in SUBSET (1..Len(t)) :
               /\ Cardinality(S) = NTest(Len(t))
               /\ xgb' = [xgb EXCEPT !.table = t, !.x_test = S, !.pc = "cell3"]
  /\ UNCHANGED <<kernel, account, load, trainer, worker>>
\* cell3: oss_model.fit(X_train, y_train)
XGBCell3 ==
  /\ xgb.pc = "cell3"
  /\ xgb' = [xgb EXCEPT !.pc = "cell4"]
  /\ UNCHANGED <<kernel, account, load, trainer, worker>>
\* cell4: oss_model.predict(X_test)
XGBCell4 ==
  /\ xgb.pc = "cell4"
  /\ xgb' = [xgb EXCEPT !.pc = "cell5"]
  /\ UNCHANGED <<kernel, account, load, trainer, worker>>
\* cell5: train_snowpark_df and test_snowpark_df are defined (lazily: each is
\* a query, run when it is read), then estimator.fit reads the training
\* query.  A fit on no rows is taken to fail.
XGBCell5 ==
  /\ xgb.pc = "cell5"
  /\ \E S \in SampleDraws(xgb.table) :
       IF S = {}
       THEN xgb' = [xgb EXCEPT !.err = "ValueError", !.pc = "failed"]
       ELSE xgb' = [xgb EXCEPT !.trained_on = RowsAt(xgb.table, S), !.pc = "cell6"]
  /\ UNCHANGED <<kernel, account, load, trainer, worker>>
\* cell6: estimator.predict reads the test query, snowpark_df EXCEPT
\* snowpark_df.sample(0.9), in which the sample is drawn anew.
XGBCell6 ==
  /\ xgb.pc = "cell6"
  /\ \E S \in SampleDraws(xgb.table) :
       xgb' = [xgb EXCEPT !.predicted_on = Subtract(xgb.table, RowsAt(xgb.table, S)),
                          !.pc = "done"]
  /\ UNCHANGED <<kernel, account, load, trainer, worker>>

NextXGB ==
  \/ XGBCell2
  \/ XGBCell3
  \/ XGBCell4
  \/ XGBCell5
  \/ XGBCell6

SpecXGB == Init /\ [][NextXGB]_vars

\* ----------------------------------------------------- PyTorch notebook
\* pandas DataFrame.drop: the frame without the named columns; a name that
\* is not a column raises KeyError.
PandasDrop(cols, names) ==
  IF names \subseteq SeqToSet(cols)
  THEN [err |-> "none", cols |-> SelectSeq(cols, LAMBDA c : c \notin names)]
  ELSE [err |-> "KeyError", cols |-> cols]
\* Snowpark DataFrame.drop keeping the named columns after all.
SnowparkDrop_KeepC2(cols, names) == cols
\* Snowpark DataFrame.drop: the frame without the named columns.
SnowparkDrop(cols, names) == SelectSeq(cols, LAMBDA c : c \notin names)
\* batch_dict.pop(label_col): the remaining keys, KeyError without the label.
PopLabel(keys) ==
  IF label_col \in SeqToSet(keys)
  THEN [err |-> "none", keys |-> SelectSeq(keys, LAMBDA k : k # label_col)]
  ELSE [err |-> "KeyError", keys |-> keys]
\* The cell that reads the table into pandas, drops C2, splits off C6 and
\* records input_cols = X.columns.tolist().
PrepareColumns ==
  /\ worker.pc = "idle"
  /\ \E cols \in TableSchemas :
       LET noC2 == PandasDrop(cols, {dropped_col})
           x    == PandasDrop(noC2.cols, {label_col})
           y    == label_col \in SeqToSet(noC2.cols)
       IN  IF noC2.err # "none" \/ x.err # "none" \/ ~y
           THEN worker' = [worker EXCEPT !.table_cols = cols, !.err = "KeyError",
                                         !.pc = "failed"]
           ELSE worker' = [worker EXCEPT !.table_cols = cols, !.input_cols = x.cols,
                                         !.pc = "shard"]
  /\ UNCHANGED <<kernel, account, load, trainer, xgb>>
\* snowpark_df = snowpark_df.drop(['C2']);
\* data_connector = ShardedDataConnector.from_dataframe(snowpark_df)
ShardData ==
  /\ worker.pc = "shard"
  /\ worker' = [worker EXCEPT !.shard_cols = SnowparkDrop(worker.table_cols, {dropped_col}),
                              !.pc = "ready"]
  /\ UNCHANGED <<kernel, account, load, trainer, xgb>>

\* ------------------------------------------------------------ train_func
\* The distributor starts train_func on the worker, whose shard yields n
\* batches; model, criterion, optimizer and dataloader are set up.
\* model = SimpleNet(input_size=len(input_cols), ...)
TrainFuncStart ==
  /\ worker.pc = "ready"
  /\ \E n \in 0..MaxBatches :
       worker' = [worker EXCEPT !.pc = "loop", !.batches = n,
                                !.input_size = Len(worker.input_cols)]
  /\ UNCHANGED <<kernel, account, load, trainer, xgb>>
\* The next batch of the epoch: labels popped from the batch, the remaining
\* tensors stacked into features, output = model(features), loss =
\* criterion(output, labels).  The loss is named by epoch and batch.  The
\* first linear layer rejects features whose width is not input_size.
Forward ==
  /\ worker.pc = "loop"
  /\ worker.epoch < NumEpochs
  /\ worker.batch < worker.batches
  /\ LET popped == PopLabel(worker.shard_cols)
     IN  IF popped.err # "none"
         THEN worker' = [worker EXCEPT !.err = popped.err, !.pc = "raised"]
         ELSE IF Len(popped.keys) # worker.input_size
         THEN worker' = [worker EXCEPT !.stacked = popped.keys,
                                       !.err = "RuntimeError", !.pc = "raised"]
         ELSE worker' = [worker EXCEPT !.stacked = popped.keys,
                                       !.loss = <<worker.epoch + 1, worker.batch + 1>>,
                                       !.steps = <<>>, !.pc = "zero_grad"]
  /\ UNCHANGED <<kernel, account, load, trainer, xgb>>
\* optimizer.zero_grad()
ZeroGrad ==
  /\ worker.pc = "zero_grad"
  /\ worker' = [worker EXCEPT !.steps = Append(@, "zero_grad"), !.pc = "backward"]
  /\ UNCHANGED <<kernel, account, load, trainer, xgb>>
\* loss.backward()
Backward ==
  /\ worker.pc = "backward"
  /\ worker' = [worker EXCEPT !.steps = Append(@, "backward"), !.pc = "step"]
  /\ UNCHANGED <<kernel, account, load, trainer, xgb>>
\* optimizer.step()
OptimizerStep ==
  /\ worker.pc = "step"
  /\ worker' = [worker EXCEPT !.steps = Append(@, "step"), !.batch = @ + 1, !.pc = "loop"]
  /\ UNCHANGED <<kernel, account, load, trainer, xgb>>
\* The dataloader is exhausted: print(f'Epoch [..], Loss: {loss.item()}').
\* Reading loss before any assignment raises UnboundLocalError.
EpochReport ==
  /\ worker.pc = "loop"
  /\ worker.epoch < NumEpochs
  /\ worker.batch = worker.batches
  /\ IF worker.loss = Unbound
     THEN worker' = [worker EXCEPT !.err = "UnboundLocalError", !.pc = "raised"]
     ELSE worker' = [worker EXCEPT !.reports = Append(@, worker.loss),
                                   !.epoch = @ + 1, !.batch = 0]
  /\ UNCHANGED <<kernel, account, load, trainer, xgb>>
\* print('Training finished')
TrainingFinished ==
  /\ worker.pc = "loop"
  /\ worker.epoch = NumEpochs
  /\ worker' = [worker EXCEPT !.finished = TRUE, !.pc = "returned"]
  /\ UNCHANGED <<kernel, account, load, trainer, xgb>>

NextTrain ==
  \/ PrepareColumns
  \/ ShardData
  \/ TrainFuncStart
  \/ Forward
  \/ ZeroGrad
  \/ Backward
  \/ OptimizerStep
  \/ EpochReport
  \/ TrainingFinished

SpecTrain == Init /\ [][NextTrain]_vars

\* ----------------------------------------------------------- definitions
\* used by the properties
Designated == numerical_cols \o onehot_col
CallOK == call.made /\ call.err = "none"
RowTable(T, i) == [names |-> T.names, col |-> [c \in DOMAIN T.col |-> <<T.col[c][i]>>]]
MatrixRow(M, i) == [k \in 1..Len(M) |-> M[k].vals[i]]
FeatureNames(M) == [k \in 1..Len(M) |-> <<M[k].tr, M[k].src, M[k].cat>>]
\* The number of indicator columns of source column src that are 1 in row i.
IndicatorSum(M, src, i) ==
  Cardinality({k \in 1..Len(M) : M[k].tr = "onehot" /\ M[k].src = src /\ M[k].vals[i] = R1})
Indicators01(M, src, i) ==
  \A k \in 1..Len(M) : (M[k].tr = "onehot" /\ M[k].src = src) => M[k].vals[i] \in {R0, R1}
\* The one-hot property of matrix M computed from table T.
OneHotProperty(M, T) ==
  \A j \in 1..Len(onehot_col) : \A i \in 1..NRows(T) :
     /\ Indicators01(M, onehot_col[j], i)
     /\ IndicatorSum(M, onehot_col[j], i) =
          IF T.col[onehot_col[j]][i] \in SeqToSet(preprocessor.categories[j]) THEN 1 ELSE 0
UnseenRows(T) ==
  {i \in 1..NRows(T) : \E j \in 1..Len(onehot_col) :
      T.col[onehot_col[j]][i] \notin SeqToSet(preprocessor.categories[j])}

\* C1: in every transform output (and in preprocessed_X) the indicator
\* columns of one categorical source column sum, in every row, to 1 when the
\* row's value is among the categories recorded at fit time and to 0 when it
\* is not.
C1_OneHotSum ==
  /\ preprocessor.fitted => OneHotProperty(preprocessed_X, fit_X)
  /\ CallOK => OneHotProperty(call.out, call.in)
\* A transform, after a fit that recorded the categories 5 and 7, of a row
\* whose value is the unseen 9.
C1_Witness ==
  /\ CallOK
  /\ preprocessor.categories = <<(<<5, 7>>)>>
  /\ call.in.col["C3"] = <<9>>
  /\ IndicatorSum(call.out, "C3", 1) = 0

\* C2: a transform of a table holding a categorical value unseen at fit time
\* returns a feature matrix whose indicators for that row are all 0; the
\* only error such a call can end in is ColumnNotFoundError, and then a
\* designated numerical column is absent from the table.
C2_UnknownNoError ==
  (call.made /\ HasColumns(call.in, onehot_col) /\ UnseenRows(call.in) # {}) =>
     \/ /\ call.err = "none"
        /\ \A i \in UnseenRows(call.in) : \A k \in 1..Len(call.out) :
              call.out[k].tr = "onehot" => call.out[k].vals[i] = R0
     \/ /\ call.err = "ColumnNotFoundError"
        /\ ~HasColumns(call.in, numerical_cols)
\* A transform of a row with an unseen category has returned a matrix with
\* its numerical and indicator columns.
C2_Witness ==
  /\ CallOK
  /\ UnseenRows(call.in) = {1}
  /\ Len(call.out) > Len(preprocessor.scaler)
  /\ \A k \in 1..Len(call.out) : call.out[k].tr = "onehot" => call.out[k].vals = <<R0>>

\* The numerical columns of T that hold at least one observed value, and the
\* number of distinct values of T's one-hot columns.
ObservedCols(T) ==
  SelectSeq(numerical_cols, LAMBDA c : \E i \in 1..NRows(T) : T.col[c][i] # NaN)
RECURSIVE DistinctCount(_, _)
DistinctCount(T, j) ==
  IF j = 0 THEN 0
  ELSE Cardinality(SeqToSet(T.col[onehot_col[j]])) + DistinctCount(T, j - 1)

\* C3 as claimed: every output has (number of numerical columns) + (number
\* of categories observed at fit time) columns.
C3_Original ==
  preprocessor.fitted =>
     /\ Len(preprocessed_X) = Len(numerical_cols) + DistinctCount(fit_X, Len(onehot_col))
     /\ CallOK => Len(call.out) = Len(numerical_cols) + DistinctCount(fit_X, Len(onehot_col))
\* C3, amended: every output, of fit_transform and of every later transform,
\* has (number of numerical columns with an observed value in the fit table)
\* + (number of categories observed at fit time) columns.
C3_ColumnCount ==
  preprocessor.fitted =>
     /\ Len(preprocessed_X) = Len(ObservedCols(fit_X)) + DistinctCount(fit_X, Len(onehot_col))
     /\ CallOK => Len(call.out) = Len(ObservedCols(fit_X)) + DistinctCount(fit_X, Len(onehot_col))
\* A fit on a table whose C1 is all missing, then a transform of a novel
\* category.
C3_Witness ==
  /\ CallOK
  /\ Len(ObservedCols(fit_X)) < Len(numerical_cols)
  /\ UnseenRows(call.in) # {}
  /\ Len(call.out) = Len(preprocessed_X)

\* C4: the parameters fit stored are those computed from the fit table, and
\* no transform call changes them: after any sequence of transform calls
\* they are still FitParams of the fit table, and a call's output is the
\* function of its input table and those parameters.
C4_ParamsFixed ==
  preprocessor.fitted =>
     /\ preprocessor = FitParams(fit_X)
     /\ CallOK => call.out = TransformOut(preprocessor, call.in)
\* A transform of a table that fit would have learned other parameters from.
C4_Witness ==
  /\ CallOK
  /\ FitParams(call.in) # preprocessor
  /\ FitParams(call.in).categories # preprocessor.categories

\* C5 as claimed: once the split is made, the preprocessing parameters are
\* those fitted from the training rows alone.
C5_FitOnTrainOnly ==
  test_idx # {} => preprocessor = FitParams(TrainRows(fit_X, test_idx))

\* Matrix M has one row per row of T, and row i of M is the encoding of row
\* i of T under parameters p.
RowAligned(M, T, p) ==
  /\ \A k \in 1..Len(M) : Len(M[k].vals) = NRows(T)
  /\ \A i \in 1..NRows(T) : MatrixRow(M, i) = MatrixRow(TransformOut(p, RowTable(T, i)), 1)

\* C6: the matrix fit_transform or transform returns has exactly the rows of
\* its input table, in the input's order.
C6_RowCount ==
  /\ preprocessor.fitted => RowAligned(preprocessed_X, fit_X, preprocessor)
  /\ CallOK => RowAligned(call.out, call.in, preprocessor)
\* A fit_transform of a two-row table with a missing value and two different
\* rows.
C6_Witness ==
  /\ preprocessor.fitted
  /\ NRows(fit_X) = 2
  /\ fit_X.col["C1"] = <<NaN, 3>>
  /\ MatrixRow(preprocessed_X, 1) # MatrixRow(preprocessed_X, 2)

ExpectedNames(T, nums) ==
  [k \in 1..Len(nums) |-> <<"num", nums[k], NaN>>]
  \o Flatten([j \in 1..Len(onehot_col) |->
       [k \in 1..Cardinality(SeqToSet(T.col[onehot_col[j]])) |->
          <<"onehot", onehot_col[j], SortedSeq(SeqToSet(T.col[onehot_col[j]]))[k]>>]])
\* One numerical column through imputer and scaler: fitted on xs, applied to ys.
ColumnPipeline(xs, ys) ==
  LET st == ImputerFit(xs)
      sc == ScalerFit([i \in 1..Len(xs) |-> ImputeValue(xs[i], st.mean)])
  IN [i \in 1..Len(ys) |-> ScaleValue(ImputeValue(ys[i], st.mean), sc)]
\* The numerical columns of M, computed from T, are the kept columns of the
\* fit table in order, each holding its own source column's values.
NumColumnsRouted(M, T) ==
  \A k \in 1..Len(ObservedCols(fit_X)) :
     M[k].vals = ColumnPipeline(fit_X.col[ObservedCols(fit_X)[k]], T.col[ObservedCols(fit_X)[k]])

C9_ColumnNotFound ==
  [][/\ (~call.made /\ call'.made /\ ~HasColumns(call'.in, Designated)) =>
          /\ call'.err = "ColumnNotFoundError"
          /\ call'.out = <<>>
          /\ preprocessor' = preprocessor
          /\ preprocessed_X' = preprocessed_X
          /\ X' = X
     /\ (pc = "fit" /\ ~HasColumns(X, Designated)) =>
          /\ pc' = "failed"
          /\ err' = "ColumnNotFoundError"
          /\ preprocessor' = preprocessor
          /\ preprocessed_X' = preprocessed_X
          /\ fit_X' = fit_X
          /\ X' = X]_vars
\* A transform of a table without C3 has failed; the parameters are those of
\* the fit.
C9_Witness ==
  /\ call.made
  /\ ~HasColumns(call.in, onehot_col)
  /\ call.err = "ColumnNotFoundError"
  /\ preprocessor.fitted
  /\ preprocessor = FitParams(fit_X)

\* cell3's fit_transform has run on X.
FitAttempted == pc \in {"cell4", "cell5", "done", "failed"}
EmptyNumCols(T) == {c \in SeqToSet(numerical_cols) : \A i \in 1..NRows(T) : T.col[c][i] = NaN}

\* C10 as claimed: fit on a table with a numerical column that has no
\* observed value fails with EmptyColumnError and leaves nothing fitted; fit
\* on a table whose numerical columns all have one never raises it.
C10_Original ==
  (FitAttempted /\ HasColumns(X, Designated)) =>
     /\ EmptyNumCols(X) # {} => (err = "EmptyColumnError" /\ ~preprocessor.fitted)
     /\ EmptyNumCols(X) = {} => err # "EmptyColumnError"
\* C10, amended: fit never raises EmptyColumnError.  On a table with at least
\* one row in which some but not all designated numerical columns have no
\* observed value, fit succeeds: the imputer stores no mean for such a
\* column and leaves it out of the output, and the other columns are fitted;
\* when every numerical column has an observed value, every one is kept.
C10_EmptyColumnDropped ==
  /\ err # "EmptyColumnError"
  /\ (FitAttempted /\ HasColumns(X, Designated) /\ NRows(X) >= 1
        /\ EmptyNumCols(X) # SeqToSet(numerical_cols)) =>
       /\ preprocessor.fitted
       /\ fit_X = X
       /\ \A j \in 1..Len(numerical_cols) :
             preprocessor.statistics[j].ok <=> numerical_cols[j] \notin EmptyNumCols(X)
       /\ Len(preprocessor.scaler) = Len(numerical_cols) - Cardinality(EmptyNumCols(X))
       /\ \A k \in 1..Len(preprocessed_X) :
             preprocessed_X[k].tr = "num" => preprocessed_X[k].src \notin EmptyNumCols(X)
\* fit_transform has returned on a two-row table whose C1 is all missing.
C10_Witness ==
  /\ pc = "cell4"
  /\ X.col["C1"] = <<NaN, NaN>>
  /\ preprocessor.fitted
  /\ ~preprocessor.statistics[1].ok
  /\ Len(preprocessed_X) = DistinctCount(X, Len(onehot_col)) + Len(numerical_cols) - 1

\* The row counts found among the columns of matrix M that transformer tr
\* produced.
BlockRowCounts(M, tr) == {Len(M[k].vals) : k \in {l \in 1..Len(M) : M[l].tr = tr}}

\* C11: the two blocks the ColumnTransformer stacks have equal row counts:
\* in preprocessed_X and in every transform output, the columns of the
\* numerical pipeline and those of the one-hot pipeline all have the number
\* of rows of the input table, and no run ends in RowCountMismatchError.
C11_BlocksSameRows ==
  /\ err # "RowCountMismatchError"
  /\ call.err # "RowCountMismatchError"
  /\ preprocessor.fitted =>
       /\ BlockRowCounts(preprocessed_X, "num") = {NRows(fit_X)}
       /\ BlockRowCounts(preprocessed_X, "onehot") = {NRows(fit_X)}
  /\ CallOK =>
       /\ BlockRowCounts(call.out, "num") = {NRows(call.in)}
       /\ BlockRowCounts(call.out, "onehot") = {NRows(call.in)}
\* A transform of a row with a missing C1 and an unseen category, after a
\* fit on two rows: both blocks have the one row.
C11_Witness ==
  /\ CallOK
  /\ NRows(fit_X) = 2
  /\ call.in.col["C1"] = <<NaN>>
  /\ call.in.col["C3"] = <<9>>
  /\ BlockRowCounts(call.out, "num") = {1}
  /\ BlockRowCounts(call.out, "onehot") = {1}
\* The sum of the observed values of column xs, and how many there are.
RECURSIVE ObservedSum(_)
ObservedSum(xs) ==
  IF xs = <<>> THEN 0
  ELSE (IF Head(xs) = NaN THEN 0 ELSE Head(xs)) + ObservedSum(Tail(xs))
ObservedCount(xs) == Cardinality({i \in 1..Len(xs) : xs[i] # NaN})
\* Column k of matrix M, computed from T, is the scaling of T's column with
\* each missing value replaced by the stored mean and each observed value
\* left as it is.
ImputedThenScaled(M, T, k) ==
  LET j == KeptIdx(preprocessor.statistics)[k]
      xs == T.col[numerical_cols[j]]
  IN \A i \in 1..Len(xs) :
        M[k].vals[i] =
          ScaleValue(IF xs[i] = NaN THEN preprocessor.statistics[j].mean ELSE Frac(xs[i], 1),
                     preprocessor.scaler[k])

\* C12: after fit, the statistic stored for a numerical column with an
\* observed value is the mean of the column's observed fit-time values
\* (mean * count = sum), and in preprocessed_X and every transform output a
\* missing value enters the scaler as that stored mean and an observed value
\* enters it unchanged.
C12_Imputation ==
  preprocessor.fitted =>
     /\ \A j \in 1..Len(numerical_cols) :
           LET xs == fit_X.col[numerical_cols[j]]
               st == preprocessor.statistics[j]
           IN /\ st.ok <=> ObservedCount(xs) > 0
              /\ st.ok => st.mean.n * ObservedCount(xs) = st.mean.d * ObservedSum(xs)
     /\ \A k \in 1..Len(preprocessor.scaler) :
           /\ ImputedThenScaled(preprocessed_X, fit_X, k)
           /\ CallOK => ImputedThenScaled(call.out, call.in, k)
\* fit on C1 = [1, 3] stored the mean 2; a transform of a row whose C1 is
\* missing put 2 in its place, which the scaler maps to 0.
C12_Witness ==
  /\ CallOK
  /\ fit_X.col["C1"] = <<1, 3>>
  /\ preprocessor.statistics[1] = [ok |-> TRUE, mean |-> Frac(2, 1)]
  /\ call.in.col["C1"] = <<NaN>>
  /\ call.out[1].vals = <<R0>>
\* The square root of a fraction that has a rational one.
IsSquare(n) == \E r \in 0..n : r * r = n
ISqrt(n) == CHOOSE r \in 0..n : r * r = n
HasRoot(f) == IsSquare(f.n) /\ IsSquare(f.d)
Root(f) == Frac(ISqrt(f.n), ISqrt(f.d))
\* The values zs of one scaled column sum to 0.  They are multiples of one
\* another by rational factors (all were divided by the same scale), so
\* each is written as a rational multiple of the first non-zero one.
SumsToZero(zs) ==
  LET nz == {i \in 1..Len(zs) : zs[i].sgn # 0} IN
  \/ nz = {}
  \/ LET ref == zs[Min(nz)].sq
         ratio == [i \in 1..Len(zs) |-> FDiv(zs[i].sq, ref)]
     IN /\ \A i \in 1..Len(zs) : HasRoot(ratio[i])
        /\ FSum([i \in 1..Len(zs) |->
                   FMul(Frac(zs[i].sgn, 1), Root(ratio[i]))]) = Zero
\* The mean of the squares of zs is 1.
MeanSquareOne(zs) == FSum([i \in 1..Len(zs) |-> zs[i].sq]) = Frac(Len(zs), 1)
\* Column xs holds at most one distinct observed value.
ConstantColumn(xs) == Cardinality(SeqToSet(xs) \ {NaN}) <= 1

\* C13: over the fit table, every numerical column of preprocessed_X has
\* mean 0 and standard deviation 1 (its values sum to 0 and their squares to
\* the number of rows), except a column that was constant at fit time, which
\* is 0 in every row; the scale stored for a column is never zero.
C13_Standardised ==
  preprocessor.fitted =>
     \A k \in 1..Len(preprocessor.scaler) :
        LET xs == fit_X.col[preprocessed_X[k].src]
            zs == preprocessed_X[k].vals
        IN /\ preprocessed_X[k].tr = "num"
           /\ preprocessor.scaler[k].var.d > 0
           /\ IF ConstantColumn(xs)
              THEN \A i \in 1..Len(zs) : zs[i] = R0
              ELSE SumsToZero(zs) /\ MeanSquareOne(zs)
\* fit_transform of two rows: C1 = [1, missing] is constant after imputation
\* and comes out as zeros, C4 = [1, 2] comes out as -1 and +1.
C13_Witness ==
  /\ preprocessor.fitted
  /\ fit_X.col["C1"] = <<1, NaN>>
  /\ preprocessed_X[1].vals = <<R0, R0>>
  /\ preprocessed_X[2].vals = <<Real(0 - 1, Frac(1, 1)), R1>>
RoutedTo(c) ==
  {g \in {"num", "onehot"} :
     c \in SeqToSet(IF g = "num" THEN numerical_cols ELSE onehot_col)}

\* C15: no column is in both groups, neither group holds the dropped C2 or
\* the target C6, the feature table's columns are VEHICLE's without those
\* two, and every column of the X cell2 built is routed to exactly one
\* pipeline; when X has all its columns, both groups lie within it.
C15_ColumnGroups ==
  /\ SeqToSet(numerical_cols) \cap SeqToSet(onehot_col) = {}
  /\ {dropped_col, label_col} \cap SeqToSet(Designated) = {}
  /\ SeqToSet(XCols) = SeqToSet(VehicleCols) \ {dropped_col, label_col}
  /\ pc # "cell2" =>
       /\ {dropped_col, label_col} \cap SeqToSet(X.names) = {}
       /\ \A c \in SeqToSet(X.names) : Cardinality(RoutedTo(c)) = 1
       /\ Len(X.names) = Len(XCols) => SeqToSet(Designated) = SeqToSet(X.names)
\* fit_transform has returned on an X with all seven feature columns, and
\* every one of them is the source of an output column.
C15_Witness ==
  /\ pc = "cell4"
  /\ X.names = XCols
  /\ {preprocessed_X[k].src : k \in 1..Len(preprocessed_X)} = SeqToSet(XCols)
  /\ Cardinality({k \in 1..Len(preprocessed_X) : preprocessed_X[k].tr = "num"}) =
       Len(numerical_cols)
\* C17: a training notebook's read of CR_QUICKSTART.PUBLIC.VEHICLE succeeds
\* exactly when the load notebook has executed its CREATE TABLE, and it gets
\* rows only when COPY INTO has been executed too; what it reads then has
\* the feature columns the training notebooks reference (C1..C9 without the
\* timestamp C2 and the label C6), all of them columns the load notebook
\* created.
C17_LoadBeforeTraining ==
  /\ SeqToSet(Designated) \cup {dropped_col, label_col} \subseteq SeqToSet(VehicleCols)
  /\ trainer.made =>
       /\ trainer.err = "none" <=> trainer.created
       /\ trainer.err # "none" => trainer.err = "TableNotFound"
       /\ trainer.nrows > 0 => trainer.copied
       /\ trainer.err = "none" => trainer.names = XCols
\* The XGBoost notebook has read two rows, after the load notebook's COPY INTO.
C17_Witness ==
  /\ trainer.made
  /\ trainer.nb = "xgboost"
  /\ trainer.err = "none"
  /\ trainer.copied
  /\ trainer.nrows = 2
  /\ trainer.names = XCols

\* Statement a was issued before every issue of statement b.
IssuedBefore(a, b) ==
  \A j \in 1..Len(load.issued) :
     load.issued[j] = b => \E i \in 1..(j - 1) : load.issued[i] = a
\* The SQL statements of the notebook, in order.
SqlStatements == SelectSeq(LoadProgram, LAMBDA st : st \notin {"GET_SESSION", "CLOSE"})

\* C18: no statement of the load notebook fails for want of an object, and
\* on the session the statements are issued in the order database created,
\* database selected, schema created, table created; table, file format and
\* stage before COPY INTO; COPY INTO before the row count; once the session
\* is closed the notebook is finished and the statements issued on it are
\* the notebook's ten, none after the close.
C18_StatementOrder ==
  /\ load.err = "none"
  /\ IssuedBefore("CREATE_DATABASE", "USE_DATABASE")
  /\ IssuedBefore("USE_DATABASE", "CREATE_SCHEMA")
  /\ IssuedBefore("CREATE_SCHEMA", "CREATE_TABLE")
  /\ IssuedBefore("CREATE_TABLE", "COPY_INTO")
  /\ IssuedBefore("CREATE_FILE_FORMAT", "COPY_INTO")
  /\ IssuedBefore("CREATE_STAGE", "COPY_INTO")
  /\ IssuedBefore("COPY_INTO", "SELECT_COUNT")
  /\ load.issued # <<>> => load.session \in {"open", "closed"}
  /\ load.session = "closed" => (load.pc = Finished /\ load.issued = SqlStatements)
\* The first run has closed its session after the count of a two-row table.
C18_Witness ==
  /\ load.session = "closed"
  /\ load.runs = 0
  /\ Len(load.issued) = 10
  /\ load.counts = <<2>>
  /\ QualifiedTable \in DOMAIN account.tables

\* C19: whenever a run of the load notebook has finished, the first or a
\* later one, the VEHICLE table holds exactly the rows of the source file,
\* once each line, and every run has printed that same row count.
C19_Idempotent ==
  load.pc = Finished =>
     /\ QualifiedTable \in DOMAIN account.tables
     /\ account.tables[QualifiedTable].rows = DataRows(account.file)
     /\ Len(load.counts) = load.runs + 1
     /\ \A i \in 1..Len(load.counts) : load.counts[i] = Len(DataRows(account.file))
\* The second run has finished on a file with two equal data lines.
C19_Witness ==
  /\ load.pc = Finished
  /\ load.runs = 1
  /\ account.file = <<HeaderLine, 1, 1>>
  /\ account.tables[QualifiedTable].rows = <<1, 1>>
  /\ load.counts = <<2, 2>>
\* C16 as claimed: once the estimator has been fitted on the training
\* DataFrame and has predicted on the test DataFrame, no row it was trained
\* on is among the rows it predicted on, and every row of the table is in
\* one of the two.
C16_SplitPartitions ==
  xgb.pc = "done" =>
     /\ SeqToSet(xgb.trained_on) \cap xgb.predicted_on = {}
     /\ SeqToSet(xgb.table) = SeqToSet(xgb.trained_on) \cup xgb.predicted_on

\* C20 as claimed: whenever train_func has stopped, it has printed 'Training
\* finished' after exactly 10 epoch reports, the report of each epoch being
\* the loss of that epoch's last batch, and every batch went through
\* zero_grad, backward, step in that order.
C20_TrainingFinishes ==
  /\ worker.pc \in {"raised", "returned"} =>
       /\ worker.finished
       /\ worker.err = "none"
       /\ Len(worker.reports) = NumEpochs
       /\ \A e \in 1..Len(worker.reports) : worker.reports[e] = <<e, worker.batches>>
  /\ (worker.pc = "loop" /\ worker.batch > 0) =>
       worker.steps = <<"zero_grad", "backward", "step">>

\* C21: for every batch train_func has taken from the dataloader, the
\* tensors stacked into features are the shard's columns (the table's
\* without C2) without the popped label C6; their number equals the
\* model's input_size = len(input_cols) derived from the pandas copy, the
\* label is not among them, and the forward pass raised no shape error.
BatchTaken ==
  \/ worker.stacked # NoCols
  \/ (worker.pc = "raised" /\ worker.err # "UnboundLocalError")
C21_FeatureWidth ==
  BatchTaken =>
    /\ worker.err = "none"
    /\ Len(worker.stacked) = worker.input_size
    /\ worker.input_size = Len(worker.input_cols)
    /\ worker.stacked = SelectSeq(worker.table_cols,
                                  LAMBDA c : c \notin {dropped_col, label_col})
    /\ label_col \notin SeqToSet(worker.stacked)
C21_Witness ==
  /\ worker.pc = "zero_grad"
  /\ worker.table_cols = VehicleCols
  /\ worker.stacked = XCols
  /\ worker.input_size = 7
====
